---- MODULE Spec2Model ----
(***************************************************************************)
(* A model of examples/rust/src/main.rs: the Scrappey API client           *)
(* (scrappey_request), the response envelope decoding derived for          *)
(* ScrappeyResponse and Solution, and the example flows main runs          *)
(* (basic_example, session_example, post_example).                         *)
(***************************************************************************)
EXTENDS Integers, Sequences, FiniteSets, TLC

(***************************************************************************)
(* Bounds of the model.                                                    *)
(***************************************************************************)
\* longest run of characters appended to the ASCII prefix of a response text
MaxTail == 2
\* most keys of a caller-supplied parameter object
MaxParams == 2

(***************************************************************************)
(* Option<T>: None is the empty tuple, Some(x) the one-element tuple.      *)
(***************************************************************************)
None == << >>
Some(x) == << x >>
IsSome(o) == Len(o) = 1
Unwrap(o) == o[1]

(***************************************************************************)
(* JSON values (serde_json::Value) and response bodies.  A string is       *)
(* either known by name (JStr, compared by equality only) or by its        *)
(* Unicode scalar values (JText, where the UTF-8 layout matters).  JNum    *)
(* is a JSON number written as an integer that fits i32, JBigNum an        *)
(* integer beyond i32, JFloat a number with a fraction.                    *)
(* NotJson is a body that is not JSON text at all.  A decoded Rust String  *)
(* is represented by the same JStr / JText record.                         *)
(***************************************************************************)
JNull == [k |-> "null"]
JBool(b) == [k |-> "bool", b |-> b]
JNum(n) == [k |-> "num", n |-> n]
JBigNum == [k |-> "bignum"]
JFloat == [k |-> "float"]
JStr(s) == [k |-> "str", s |-> s]
JText(cs) == [k |-> "text", cs |-> cs]
JArr(xs) == [k |-> "arr", xs |-> xs]
JObj(f) == [k |-> "obj", m |-> f]
NotJson == [k |-> "notjson"]
EmptyMap == [x \in {} |-> JNull]

IsJString(x) == x.k \in {"str", "text"}
IsJObject(x) == x.k = "obj"
Has(o, key) == key \in DOMAIN o.m

(***************************************************************************)
(* UTF-8: a Rust String is a byte sequence; a char of scalar value c       *)
(* takes 1 to 4 bytes (str::len counts bytes, slicing is by byte offset).  *)
(***************************************************************************)
Utf8Char(c) ==
    IF c < 128 THEN << c >>
    ELSE IF c < 2048 THEN << 192 + (c \div 64), 128 + (c % 64) >>
    ELSE IF c < 65536 THEN
        << 224 + (c \div 4096), 128 + ((c \div 64) % 64), 128 + (c % 64) >>
    ELSE << 240 + (c \div 262144), 128 + ((c \div 4096) % 64),
            128 + ((c \div 64) % 64), 128 + (c % 64) >>

\* the bytes of a sequence of chars (halving keeps the evaluation shallow)
RECURSIVE Utf8Bytes(_)
Utf8Bytes(cs) ==
    IF cs = << >> THEN << >>
    ELSE IF Len(cs) = 1 THEN Utf8Char(cs[1])
    ELSE LET h == Len(cs) \div 2
         IN  Utf8Bytes(SubSeq(cs, 1, h)) \o Utf8Bytes(SubSeq(cs, h + 1, Len(cs)))

\* str::len
StrLen(s) == Len(Utf8Bytes(s.cs))

\* str::is_char_boundary: 0, len, or a byte that is not a continuation byte
IsCharBoundary(s, i) ==
    LET bs == Utf8Bytes(s.cs)
    IN  \/ i = 0
        \/ i = Len(bs)
        \/ /\ i < Len(bs)
           /\ ~(bs[i + 1] >= 128 /\ bs[i + 1] < 192)

\* the longest run of leading chars of cs whose encoding lies within the
\* first n bytes
RECURSIVE CharsWithin(_, _)
CharsWithin(cs, n) ==
    IF cs = << >> THEN << >>
    ELSE IF Len(cs) = 1 THEN (IF Len(Utf8Char(cs[1])) <= n THEN cs ELSE << >>)
    ELSE LET h == Len(cs) \div 2
             left == SubSeq(cs, 1, h)
             lb == Len(Utf8Bytes(left))
         IN  IF lb <= n
             THEN left \o CharsWithin(SubSeq(cs, h + 1, Len(cs)), n - lb)
             ELSE CharsWithin(left, n)

(***************************************************************************)
(* Decoding, as #[derive(Deserialize)] generates it for a struct whose     *)
(* fields are all Option<_> and serde_json drives it:                      *)
(*   - from a JSON object: a key that is missing or null gives None, a     *)
(*     key of the field's type gives Some, a key of another type is an     *)
(*     error, keys that name no field are ignored;                         *)
(*   - from a JSON array: the elements are the fields in declaration       *)
(*     order, and an array shorter or longer than the struct is an error;  *)
(*   - from anything else: an error.                                       *)
(***************************************************************************)
\* whether JSON value x decodes as a plain (non-solution) field of type ty
ScalarOk(ty, x) ==
    CASE ty = "string" -> IsJString(x)
      [] ty = "bool"   -> x.k = "bool"
      [] ty = "i32"    -> x.k = "num"
      [] ty = "array"  -> x.k = "arr"

ScalarVal(ty, x) ==
    CASE ty = "string" -> x
      [] ty = "bool"   -> x.b
      [] ty = "i32"    -> x.n
      [] ty = "array"  -> x.xs

\* struct Solution: JSON key, Rust field, type, in declaration order
SolutionFields ==
    << [json |-> "verified",         rust |-> "verified",          ty |-> "bool"],
       [json |-> "response",         rust |-> "response",          ty |-> "string"],
       [json |-> "statusCode",       rust |-> "status_code",       ty |-> "i32"],
       [json |-> "currentUrl",       rust |-> "current_url",       ty |-> "string"],
       [json |-> "userAgent",        rust |-> "user_agent",        ty |-> "string"],
       [json |-> "cookieString",     rust |-> "cookie_string",     ty |-> "string"],
       [json |-> "screenshot",       rust |-> "screenshot",        ty |-> "string"],
       [json |-> "javascriptReturn", rust |-> "javascript_return", ty |-> "array"] >>

\* struct ScrappeyResponse
ResponseFields ==
    << [json |-> "solution",    rust |-> "solution",     ty |-> "solution"],
       [json |-> "timeElapsed", rust |-> "time_elapsed", ty |-> "i32"],
       [json |-> "data",        rust |-> "data",         ty |-> "string"],
       [json |-> "session",     rust |-> "session",      ty |-> "string"],
       [json |-> "error",       rust |-> "error",        ty |-> "string"] >>

\* the JSON value given for field i of a struct by body x (object or array
\* form), or None when the object has no such key
Given(fields, x, i) ==
    IF x.k = "obj"
    THEN IF Has(x, fields[i].json) THEN Some(x.m[fields[i].json]) ELSE None
    ELSE Some(x.xs[i])

\* Deserialize for Solution
SolutionOk(x) ==
    /\ x.k \in {"obj", "arr"}
    /\ x.k = "arr" => Len(x.xs) = Len(SolutionFields)
    /\ \A i \in 1..Len(SolutionFields) :
          LET g == Given(SolutionFields, x, i)
          IN  IsSome(g) /\ Unwrap(g).k # "null"
                  => ScalarOk(SolutionFields[i].ty, Unwrap(g))

SolutionVal(x) ==
    [ r \in { SolutionFields[i].rust : i \in 1..Len(SolutionFields) } |->
        LET i == CHOOSE j \in 1..Len(SolutionFields) : SolutionFields[j].rust = r
            g == Given(SolutionFields, x, i)
        IN  IF IsSome(g) /\ Unwrap(g).k # "null"
            THEN Some(ScalarVal(SolutionFields[i].ty, Unwrap(g)))
            ELSE None ]

FieldOk(ty, x) == IF ty = "solution" THEN SolutionOk(x) ELSE ScalarOk(ty, x)
FieldVal(ty, x) == IF ty = "solution" THEN SolutionVal(x) ELSE ScalarVal(ty, x)

\* Deserialize for ScrappeyResponse
ResponseOk(x) ==
    /\ x.k \in {"obj", "arr"}
    /\ x.k = "arr" => Len(x.xs) = Len(ResponseFields)
    /\ \A i \in 1..Len(ResponseFields) :
          LET g == Given(ResponseFields, x, i)
          IN  IsSome(g) /\ Unwrap(g).k # "null"
                  => FieldOk(ResponseFields[i].ty, Unwrap(g))

ResponseVal(x) ==
    [ r \in { ResponseFields[i].rust : i \in 1..Len(ResponseFields) } |->
        LET i == CHOOSE j \in 1..Len(ResponseFields) : ResponseFields[j].rust = r
            g == Given(ResponseFields, x, i)
        IN  IF IsSome(g) /\ Unwrap(g).k # "null"
            THEN Some(FieldVal(ResponseFields[i].ty, Unwrap(g)))
            ELSE None ]

(***************************************************************************)
(* Result<ScrappeyResponse, Box<dyn Error>>                                *)
(***************************************************************************)
Ok(e) == [ok |-> TRUE, val |-> e]
Err(kind) == [ok |-> FALSE, err |-> kind]

\* a changed decoding: an envelope that carries an error is made a failure
DecodeBodyErrorFails(b) ==
    IF b.k # "notjson" /\ ResponseOk(b)
    THEN IF IsSome(ResponseVal(b).error) THEN Err("remote") ELSE Ok(ResponseVal(b))
    ELSE Err("decode")

\* response.json(): the body parsed and decoded as ScrappeyResponse
DecodeBody(b) ==
    IF b.k # "notjson" /\ ResponseOk(b) THEN Ok(ResponseVal(b)) ELSE Err("decode")

(***************************************************************************)
(* The request body: the caller's object (or an empty map when the         *)
(* caller's value is not an object), with "cmd" inserted last.             *)
(***************************************************************************)
\* Value::as_object().cloned().unwrap_or_default()
AsObjectOrDefault(data) == IF data.k = "obj" THEN data.m ELSE EmptyMap

\* a changed Map::insert: a key already there keeps its value (or_insert)
MapInsertKeep(m, key, val) ==
    [ x \in DOMAIN m \cup {key} |-> IF x \in DOMAIN m THEN m[x] ELSE val ]

\* Map::insert
MapInsert(m, key, val) ==
    [ x \in DOMAIN m \cup {key} |-> IF x = key THEN val ELSE m[x] ]

BuildPayload(cmd, data) == MapInsert(AsObjectOrDefault(data), "cmd", JStr(cmd))

(***************************************************************************)
(* Configuration.                                                          *)
(***************************************************************************)
\* Client::builder().timeout(Duration::from_secs(300))
Timeout == 300
\* the clock is observed every TickSecs seconds
TickSecs == 60

Placeholder == "YOUR_API_KEY"
ApiUrl == "https://publisher.scrappey.com/api/v1"

\* the states of the environment variable SCRAPPEY_API_KEY
EnvStates ==
    { [st |-> "unset"], [st |-> "notunicode"], [st |-> "set", v |-> "key-1"] }

\* env::var("SCRAPPEY_API_KEY").unwrap_or_else(|_| "YOUR_API_KEY")
get_api_key(e) == IF e.st = "set" THEN e.v ELSE Placeholder

get_api_url == ApiUrl

(***************************************************************************)
(* What the remote side may answer.                                        *)
(***************************************************************************)
Ascii(n) == [ i \in 1..n |-> 97 ]

\* 'a', e-acute (2 bytes), the euro sign (3 bytes), an emoji (4 bytes)
TailChars == { 97, 233, 8364, 128512 }
PrefixLens == { 0, 198, 199, 200 }

RECURSIVE SeqsUpTo(_, _)
SeqsUpTo(S, n) ==
    IF n = 0 THEN { << >> }
    ELSE LET shorter == SeqsUpTo(S, n - 1)
         IN  shorter \cup { Append(t, c) : t \in shorter, c \in S }

Texts == { JText(Ascii(n) \o t) : n \in PrefixLens, t \in SeqsUpTo(TailChars, MaxTail) }

SolutionStatus == JObj("statusCode" :> JNum(200))

\* objects that match the envelope
PlainEnvelopes ==
    { JObj(d @@ e @@ ss @@ so) :
        d  \in { EmptyMap, "data" :> JStr("success") },
        e  \in { EmptyMap, "error" :> JStr("boom") },
        ss \in { EmptyMap, "session" :> JStr("abc123"), "session" :> JStr("xyz789") },
        so \in { EmptyMap, "solution" :> SolutionStatus } }

TextEnvelopes ==
    { JObj("data" :> JStr("success")
           @@ "solution" :> JObj("statusCode" :> JNum(200) @@ "response" :> t)) :
        t \in Texts }

OtherEnvelopes ==
    { JObj(EmptyMap),
      JObj("extra" :> JNum(1)),
      JObj("error" :> JNull @@ "data" :> JNull),
      JObj("error" :> JStr("boom") @@ "timeElapsed" :> JNum(1200)),
      JObj("error" :> JStr("boom") @@ "extra" :> JArr(<< >>)),
      JObj("data" :> JStr("error") @@ "error" :> JStr("boom")),
      JObj("data" :> JStr("success") @@ "solution" :> JObj(EmptyMap)),
      JObj("data" :> JStr("success") @@ "solution" :> JNull),
      JObj("data" :> JStr("success")
           @@ "solution" :> JArr(<< JBool(TRUE), JNull, JNum(200), JNull,
                                    JNull, JNull, JNull, JArr(<< >>) >>)) }

\* JSON that is an object but does not decode
MistypedObjects ==
    { JObj("error" :> JNum(5)),
      JObj("error" :> JObj("code" :> JNum(5))),
      JObj("error" :> JStr("boom") @@ "data" :> JNum(1)),
      JObj("error" :> JStr("boom") @@ "timeElapsed" :> JFloat),
      JObj("error" :> JStr("boom") @@ "timeElapsed" :> JBigNum),
      JObj("error" :> JStr("boom") @@ "session" :> JBool(FALSE)),
      JObj("error" :> JStr("boom") @@ "solution" :> JStr("none")),
      JObj("data" :> JStr("success") @@ "solution" :> JObj("statusCode" :> JStr("200"))),
      JObj("data" :> JStr("success") @@ "solution" :> JArr(<< JNull >>)) }

\* JSON that is no object
NonObjects ==
    { JNull, JStr("ok"), JNum(7), JBool(TRUE),
      JArr(<< >>),
      JArr(<< JNull, JNull, JNull, JNull, JNull >>),
      JArr(<< JNull, JNull, JNull, JNull, JNull, JNull >>),
      JArr(<< JNull, JNum(3), JStr("success"), JStr("abc123"), JNull >>),
      JArr(<< JNull, JNull, JNull, JNull, JNum(5) >>) }

Bodies ==
    PlainEnvelopes \cup TextEnvelopes \cup OtherEnvelopes
        \cup MistypedObjects \cup NonObjects \cup { NotJson }

(***************************************************************************)
(* What a caller may pass (for the client taken on its own).               *)
(***************************************************************************)
Commands == { "request.get", "sessions.create" }
ParamKeys == { "cmd", "url", "session" }
ParamVals == { JStr("request.post"), JBool(TRUE), JNull }

ParamObjects ==
    { JObj(f) : f \in UNION { [ K -> ParamVals ] :
                    K \in { X \in SUBSET ParamKeys : Cardinality(X) <= MaxParams } } }

DataValues == ParamObjects \cup { JNull, JArr(<< JStr("cmd") >>) }

(***************************************************************************)
(* State.                                                                  *)
(***************************************************************************)
VARIABLES
    env,            \* the environment variable SCRAPPEY_API_KEY
    pc,             \* where main and the running example are
    exret,          \* what the example that just returned gave main
    result,         \* basic_example: the envelope of its call
    preview,        \* basic_example: the preview it printed
    session_result, \* session_example: the create envelope (session, error)
    session_id,     \* session_example: session_id
    get_result,     \* session_example: the get envelope (status_code, error)
    rpc,            \* scrappey_request: where the call is
    cmd,            \* scrappey_request: its cmd argument
    data,           \* scrappey_request: its data argument
    api_key,        \* scrappey_request: api_key
    payload,        \* scrappey_request: payload
    http,           \* the HTTP exchange of the call
    elapsed,        \* seconds since the request was sent
    body,           \* the response body received
    ret,            \* what scrappey_request returned
    attempts,       \* HTTP requests issued by the call in progress
    wire            \* every HTTP request issued, in order

vars == << env, pc, exret, result, preview, session_result, session_id,
           get_result, rpc, cmd, data, api_key, payload, http, elapsed, body,
           ret, attempts, wire >>

callVars == << rpc, cmd, data, api_key, payload, http, elapsed, body, ret,
               attempts, wire >>
exampleVars == << pc, exret, result, preview, session_result, session_id,
                  get_result >>

(***************************************************************************)
(* scrappey_request                                                        *)
(***************************************************************************)
Min(a, b) == IF a < b THEN a ELSE b

\* the example function that is running
Caller ==
    CASE pc \in {"basic", "basic_await", "basic_print", "basic_ret"} -> "basic_example"
      [] pc \in {"session", "session_create_await", "session_get",
                 "session_get_await", "session_destroy",
                 "session_destroy_await", "session_ret"} -> "session_example"
      [] pc \in {"post", "post_await", "post_ret"} -> "post_example"
      [] OTHER -> pc

\* a changed client: built without a timeout
TimedOutNever(e) == FALSE

\* the client's timeout has run out
TimedOut(e) == e >= Timeout

Awaiting == rpc \in {"await_send", "await_json"}

\* a call begins: the arguments are bound, nothing else has happened
StartCall(c, d) ==
    /\ rpc' = "build"
    /\ cmd' = c
    /\ data' = d
    /\ api_key' = ""
    /\ payload' = EmptyMap
    /\ http' = "none"
    /\ elapsed' = 0
    /\ body' = None
    /\ ret' = None
    /\ attempts' = 0
    /\ UNCHANGED wire

\* the caller has taken the result: the call's frame is gone
EndCall ==
    /\ rpc' = "idle"
    /\ cmd' = ""
    /\ data' = JNull
    /\ api_key' = ""
    /\ payload' = EmptyMap
    /\ http' = "none"
    /\ elapsed' = 0
    /\ body' = None
    /\ ret' = None
    /\ attempts' = 0
    /\ UNCHANGED wire

\* lines 61-65
ReqBuild ==
    /\ rpc = "build"
    /\ api_key' = get_api_key(env)
    /\ payload' = BuildPayload(cmd, data)
    /\ rpc' = "send"
    /\ UNCHANGED << env, exampleVars, cmd, data, http, elapsed, body, ret,
                    attempts, wire >>

\* lines 67-71: the POST is issued
ReqSend ==
    /\ rpc = "send"
    /\ wire' = Append(wire, [ by   |-> Caller,
                              url  |-> get_api_url,
                              key  |-> api_key,
                              body |-> JObj(payload) ])
    /\ attempts' = attempts + 1
    /\ http' = "inflight"
    /\ elapsed' = 0
    /\ rpc' = "await_send"
    /\ UNCHANGED << env, exampleVars, cmd, data, api_key, payload, body, ret >>

\* time passes while the call waits
Tick ==
    /\ Awaiting
    /\ elapsed < Timeout
    /\ elapsed' = Min(elapsed + TickSecs, Timeout)
    /\ UNCHANGED << env, exampleVars, rpc, cmd, data, api_key, payload, http,
                    body, ret, attempts, wire >>

\* either await ends with the client's timeout error; `?` returns it
ReqTimeout ==
    /\ Awaiting
    /\ TimedOut(elapsed)
    /\ http' = "failed"
    /\ ret' = Some(Err("timeout"))
    /\ rpc' = "ret"
    /\ UNCHANGED << env, exampleVars, cmd, data, api_key, payload, elapsed,
                    body, attempts, wire >>

\* a changed line 72: a failed send() is sent again
ReqSendFailRetry ==
    /\ rpc = "await_send"
    /\ ~(elapsed >= Timeout)
    /\ http' = "failed"
    /\ rpc' = "send"
    /\ UNCHANGED << env, exampleVars, cmd, data, api_key, payload, elapsed,
                    body, ret, attempts, wire >>

\* line 72: send() fails (no connection, reset, ...); `?` returns the error
ReqSendFail ==
    /\ rpc = "await_send"
    /\ ~TimedOut(elapsed)
    /\ http' = "failed"
    /\ ret' = Some(Err("transport"))
    /\ rpc' = "ret"
    /\ UNCHANGED << env, exampleVars, cmd, data, api_key, payload, elapsed,
                    body, attempts, wire >>

\* line 72: send() gives the response (status line and headers)
ReqHeaders ==
    /\ rpc = "await_send"
    /\ ~TimedOut(elapsed)
    /\ http' = "headers"
    /\ rpc' = "await_json"
    /\ UNCHANGED << env, exampleVars, cmd, data, api_key, payload, elapsed,
                    body, ret, attempts, wire >>

\* line 74: reading the body fails; `?` returns the error
ReqBodyFail ==
    /\ rpc = "await_json"
    /\ ~TimedOut(elapsed)
    /\ http' = "failed"
    /\ ret' = Some(Err("body"))
    /\ rpc' = "ret"
    /\ UNCHANGED << env, exampleVars, cmd, data, api_key, payload, elapsed,
                    body, attempts, wire >>

\* lines 74-75: the body arrives whole and is decoded
ReqBody ==
    /\ rpc = "await_json"
    /\ ~TimedOut(elapsed)
    /\ \E b \in Bodies :
          /\ body' = Some(b)
          /\ ret' = Some(DecodeBody(b))
    /\ http' = "completed"
    /\ elapsed' = 0
    /\ rpc' = "ret"
    /\ UNCHANGED << env, exampleVars, cmd, data, api_key, payload, attempts,
                    wire >>

Request ==
    \/ ReqBuild
    \/ ReqSend
    \/ Tick
    \/ ReqTimeout
    \/ ReqSendFail
    \/ ReqHeaders
    \/ ReqBodyFail
    \/ ReqBody

Returned == rpc = "ret"
RetOk == Returned /\ Unwrap(ret).ok
RetErr == Returned /\ ~Unwrap(ret).ok

(***************************************************************************)
(* basic_example                                                           *)
(***************************************************************************)
\* the length above which basic_example cuts the response
PreviewLimit == 200

\* "..." as format! appends it
Dots == << 46, 46, 46 >>

\* &s[..n]: the prefix of n bytes, or None where the slice panics because
\* n is beyond the end or inside a character
SliceTo(s, n) ==
    IF n <= StrLen(s) /\ IsCharBoundary(s, n)
    THEN Some(JText(CharsWithin(s.cs, n)))
    ELSE None

\* lines 95-99: Some(preview), or None where the slice panics
Preview(response) ==
    IF StrLen(response) > PreviewLimit
    THEN LET cut == SliceTo(response, PreviewLimit)
         IN  IF IsSome(cut) THEN Some(JText(Unwrap(cut).cs \o Dots)) ELSE None
    ELSE Some(response)

\* lines 82-89: the call is made
BasicCall ==
    /\ pc = "basic"
    /\ rpc = "idle"
    /\ StartCall("request.get", JObj("url" :> JStr("https://httpbin.org/get")))
    /\ pc' = "basic_await"
    /\ UNCHANGED << env, exret, result, preview, session_result, session_id,
                    get_result >>

\* line 89: `.await?`
BasicResume ==
    /\ pc = "basic_await"
    /\ Returned
    /\ IF RetOk
       THEN /\ result' = Some(Unwrap(ret).val)
            /\ pc' = "basic_print"
            /\ exret' = None
       ELSE /\ result' = None
            /\ pc' = "basic_ret"
            /\ exret' = Some("err")
    /\ EndCall
    /\ UNCHANGED << env, preview, session_result, session_id, get_result >>

\* line 91, 92, 94: the branch that prints a preview is taken
ShowsPreview(r) ==
    /\ r.data = Some(JStr("success"))
    /\ IsSome(r.solution)
    /\ IsSome(Unwrap(r.solution).response)

\* lines 91-107
BasicPrint ==
    /\ pc = "basic_print"
    /\ LET r == Unwrap(result)
       IN  IF ShowsPreview(r)
           THEN LET shown == Preview(Unwrap(Unwrap(r.solution).response))
                IN  IF IsSome(shown)
                    THEN /\ preview' = shown
                         /\ pc' = "basic_ret"
                         /\ exret' = Some("ok")
                    ELSE /\ preview' = None
                         /\ pc' = "panicked"
                         /\ exret' = None
           ELSE /\ preview' = None
                /\ pc' = "basic_ret"
                /\ exret' = Some("ok")
    /\ UNCHANGED << env, result, session_result, session_id, get_result,
                    callVars >>

(***************************************************************************)
(* session_example                                                         *)
(***************************************************************************)
\* Option<String>::unwrap_or_default
UnwrapOrDefault(o) == IF IsSome(o) THEN Unwrap(o) ELSE JStr("")

\* lines 118-121
CreateParams ==
    JObj("proxyCountry" :> JStr("UnitedStates") @@ "premiumProxy" :> JBool(TRUE))

\* lines 135-138
GetParams(id) ==
    JObj("url" :> JStr("https://httpbin.org/get") @@ "session" :> id)

\* changed lines 150-152: the session named is not the one held
DestroyParamsDefault(id) == JObj("session" :> JStr(""))

\* lines 150-152
DestroyParams(id) == JObj("session" :> id)

\* lines 115-122
SessionCreateCall ==
    /\ pc = "session"
    /\ rpc = "idle"
    /\ StartCall("sessions.create", CreateParams)
    /\ pc' = "session_create_await"
    /\ UNCHANGED << env, exret, result, preview, session_result, session_id,
                    get_result >>

\* changed lines 123-129: an envelope without a session ends the example
SessionCreateResumeNeedsSession ==
    /\ pc = "session_create_await"
    /\ Returned
    /\ IF RetOk
       THEN /\ session_result' = Some([ session |-> Unwrap(ret).val.session,
                                         error   |-> Unwrap(ret).val.error ])
            /\ session_id' = IF IsSome(Unwrap(ret).val.session)
                             THEN Unwrap(Unwrap(ret).val.session) ELSE JStr("")
            /\ pc' = IF IsSome(Unwrap(ret).val.session)
                     THEN "session_get" ELSE "session_ret"
            /\ exret' = IF IsSome(Unwrap(ret).val.session)
                        THEN None ELSE Some("err")
       ELSE /\ UNCHANGED << session_result, session_id >>
            /\ pc' = "session_ret"
            /\ exret' = Some("err")
    /\ rpc' = "idle"
    /\ cmd' = ""
    /\ data' = JNull
    /\ api_key' = ""
    /\ payload' = EmptyMap
    /\ http' = "none"
    /\ elapsed' = 0
    /\ body' = None
    /\ ret' = None
    /\ attempts' = 0
    /\ UNCHANGED << env, result, preview, get_result, wire >>

\* lines 123-129
SessionCreateResume ==
    /\ pc = "session_create_await"
    /\ Returned
    /\ IF RetOk
       THEN /\ session_result' = Some([ session |-> Unwrap(ret).val.session,
                                         error   |-> Unwrap(ret).val.error ])
            /\ session_id' = UnwrapOrDefault(Unwrap(ret).val.session)
            /\ pc' = "session_get"
            /\ exret' = None
       ELSE /\ UNCHANGED << session_result, session_id >>
            /\ pc' = "session_ret"
            /\ exret' = Some("err")
    /\ EndCall
    /\ UNCHANGED << env, result, preview, get_result >>

\* lines 132-139
SessionGetCall ==
    /\ pc = "session_get"
    /\ rpc = "idle"
    /\ StartCall("request.get", GetParams(session_id))
    /\ pc' = "session_get_await"
    /\ UNCHANGED << env, exret, result, preview, session_result, session_id,
                    get_result >>

\* changed lines 140-144: a failed get is not returned with `?`
SessionGetResumeIgnoresErr ==
    /\ pc = "session_get_await"
    /\ Returned
    /\ get_result' =
          IF RetOk
          THEN Some([ status_code |->
                          IF IsSome(Unwrap(ret).val.solution)
                          THEN Unwrap(Unwrap(ret).val.solution).status_code
                          ELSE None,
                      error |-> Unwrap(ret).val.error ])
          ELSE None
    /\ pc' = "session_destroy"
    /\ exret' = None
    /\ rpc' = "idle"
    /\ cmd' = ""
    /\ data' = JNull
    /\ api_key' = ""
    /\ payload' = EmptyMap
    /\ http' = "none"
    /\ elapsed' = 0
    /\ body' = None
    /\ ret' = None
    /\ attempts' = 0
    /\ UNCHANGED << env, result, preview, session_result, session_id, wire >>

\* lines 140-144
SessionGetResume ==
    /\ pc = "session_get_await"
    /\ Returned
    /\ IF RetOk
       THEN /\ get_result' =
                  Some([ status_code |->
                             IF IsSome(Unwrap(ret).val.solution)
                             THEN Unwrap(Unwrap(ret).val.solution).status_code
                             ELSE None,
                         error |-> Unwrap(ret).val.error ])
            /\ pc' = "session_destroy"
            /\ exret' = None
       ELSE /\ UNCHANGED get_result
            /\ pc' = "session_ret"
            /\ exret' = Some("err")
    /\ EndCall
    /\ UNCHANGED << env, result, preview, session_result, session_id >>

\* lines 147-153
SessionDestroyCall ==
    /\ pc = "session_destroy"
    /\ rpc = "idle"
    /\ StartCall("sessions.destroy", DestroyParams(session_id))
    /\ pc' = "session_destroy_await"
    /\ UNCHANGED << env, exret, result, preview, session_result, session_id,
                    get_result >>

\* lines 154-157
SessionDestroyResume ==
    /\ pc = "session_destroy_await"
    /\ Returned
    /\ pc' = "session_ret"
    /\ exret' = IF RetOk THEN Some("ok") ELSE Some("err")
    /\ EndCall
    /\ UNCHANGED << env, result, preview, session_result, session_id,
                    get_result >>

(***************************************************************************)
(* post_example                                                            *)
(***************************************************************************)
\* lines 167-170
PostParams ==
    JObj("url" :> JStr("https://httpbin.org/post")
         @@ "postData" :> JStr("username=test&password=test123"))

\* lines 164-171
PostCall ==
    /\ pc = "post"
    /\ rpc = "idle"
    /\ StartCall("request.post", PostParams)
    /\ pc' = "post_await"
    /\ UNCHANGED << env, exret, result, preview, session_result, session_id,
                    get_result >>

\* lines 172-178
PostResume ==
    /\ pc = "post_await"
    /\ Returned
    /\ pc' = "post_ret"
    /\ exret' = IF RetOk THEN Some("ok") ELSE Some("err")
    /\ EndCall
    /\ UNCHANGED << env, result, preview, session_result, session_id,
                    get_result >>

(***************************************************************************)
(* main: each example is awaited with `?`, its locals are gone on return   *)
(***************************************************************************)
\* line 247
MainAfterBasic ==
    /\ pc = "basic_ret"
    /\ pc' = IF exret = Some("ok") THEN "session" ELSE "failed"
    /\ exret' = None
    /\ result' = None
    /\ preview' = None
    /\ UNCHANGED << env, session_result, session_id, get_result, callVars >>

\* line 248
MainAfterSession ==
    /\ pc = "session_ret"
    /\ pc' = IF exret = Some("ok") THEN "post" ELSE "failed"
    /\ exret' = None
    /\ session_result' = None
    /\ session_id' = JStr("")
    /\ get_result' = None
    /\ UNCHANGED << env, result, preview, callVars >>

\* lines 249-256
MainAfterPost ==
    /\ pc = "post_ret"
    /\ pc' = IF exret = Some("ok") THEN "done" ELSE "failed"
    /\ exret' = None
    /\ UNCHANGED << env, result, preview, session_result, session_id,
                    get_result, callVars >>

Examples ==
    \/ BasicCall
    \/ BasicResume
    \/ BasicPrint
    \/ MainAfterBasic
    \/ SessionCreateCall
    \/ SessionCreateResume
    \/ SessionGetCall
    \/ SessionGetResume
    \/ SessionDestroyCall
    \/ SessionDestroyResume
    \/ MainAfterSession
    \/ PostCall
    \/ PostResume
    \/ MainAfterPost

(***************************************************************************)
(* Specifications.                                                         *)
(***************************************************************************)
IdleCall ==
    /\ rpc = "idle"
    /\ cmd = ""
    /\ data = JNull
    /\ api_key = ""
    /\ payload = EmptyMap
    /\ http = "none"
    /\ elapsed = 0
    /\ body = None
    /\ ret = None
    /\ attempts = 0
    /\ wire = << >>

NoLocals ==
    /\ exret = None
    /\ result = None
    /\ preview = None
    /\ session_result = None
    /\ session_id = JStr("")
    /\ get_result = None

\* the program: main, after the client is built (lines 243-245)
Init ==
    /\ env \in EnvStates
    /\ pc = "basic"
    /\ NoLocals
    /\ IdleCall

Next == Request \/ Examples

Spec == Init /\ [][Next]_vars

\* the client on its own: one call of scrappey_request with any arguments
InitCall ==
    /\ env \in EnvStates
    /\ pc = "caller"
    /\ NoLocals
    /\ rpc = "build"
    /\ cmd \in Commands
    /\ data \in DataValues
    /\ api_key = ""
    /\ payload = EmptyMap
    /\ http = "none"
    /\ elapsed = 0
    /\ body = None
    /\ ret = None
    /\ attempts = 0
    /\ wire = << >>

NextCall == Request

SpecCall == InitCall /\ [][NextCall]_vars

\* the runtime keeps polling the task and its timer keeps running; the
\* network owes nothing
Fairness ==
    /\ WF_vars(ReqBuild)
    /\ WF_vars(ReqSend)
    /\ WF_vars(Tick)
    /\ WF_vars(ReqTimeout)

LiveCall == InitCall /\ [][NextCall]_vars /\ Fairness

(***************************************************************************)
(* The claims.                                                             *)
(***************************************************************************)
\* the requests session_example has issued, in order
SessionWire ==
    LET Mine(e) == e.by = "session_example"
    IN  SelectSeq(wire, Mine)

WireCmd(e) == e.body.m["cmd"]

\* the envelope shape of the specification: a JSON object in which each of
\* the envelope's keys is absent, null or of its type (a solution is again
\* an object of that kind); other keys are free
SolutionShaped(x) ==
    /\ x.k = "obj"
    /\ \A i \in 1..Len(SolutionFields) :
          Has(x, SolutionFields[i].json) /\ x.m[SolutionFields[i].json].k # "null"
              => ScalarOk(SolutionFields[i].ty, x.m[SolutionFields[i].json])

EnvelopeShaped(b) ==
    /\ b.k = "obj"
    /\ \A i \in 1..Len(ResponseFields) :
          LET key == ResponseFields[i].json
          IN  Has(b, key) /\ b.m[key].k # "null"
                  => IF ResponseFields[i].ty = "solution"
                     THEN SolutionShaped(b.m[key])
                     ELSE ScalarOk(ResponseFields[i].ty, b.m[key])

\* the HTTP exchange of the call completed and scrappey_request returned
Completed == Returned /\ http = "completed"

\* the completed exchange gave a JSON object with a string under "error"
ErrorObject ==
    /\ Completed
    /\ Unwrap(body).k = "obj"
    /\ Has(Unwrap(body), "error")
    /\ IsJString(Unwrap(body).m["error"])

\* C1: for a command c and a parameter object p, the request body has
\* exactly the keys of p and "cmd", cmd is c (also when p has its own
\* "cmd"), every other key has p's value, and that body is what is sent.
C1_BodyIsParamsWithCmd ==
    rpc \in {"send", "await_send", "await_json", "ret"} /\ IsJObject(data)
        => /\ DOMAIN payload = DOMAIN data.m \cup {"cmd"}
           /\ payload["cmd"] = JStr(cmd)
           /\ \A key \in DOMAIN data.m \ {"cmd"} : payload[key] = data.m[key]
           /\ rpc # "send" => wire[Len(wire)].body = JObj(payload)

\* C1 witness: a body was sent for parameters that hold their own "cmd",
\* different from the command, and another key.
C1_Witness ==
    /\ rpc = "await_send"
    /\ IsJObject(data)
    /\ Has(data, "cmd")
    /\ data.m["cmd"] = JStr("request.post")
    /\ Has(data, "url")
    /\ cmd = "sessions.create"
    /\ Len(wire) = 1

\* C2 as stated: a completed exchange whose body is a JSON object with an
\* error string always returns Ok with that string in the envelope.
C2_AnyErrorObjectIsOk ==
    ErrorObject
        => /\ Unwrap(ret).ok
           /\ Unwrap(ret).val.error = Some(Unwrap(body).m["error"])

\* C2 amended: a completed exchange whose body is a JSON object that
\* matches the envelope shape and has an error string returns Ok with that
\* string in the envelope, with or without a data field.
C2_ShapedErrorObjectIsOk ==
    ErrorObject /\ EnvelopeShaped(Unwrap(body))
        => /\ Unwrap(ret).ok
           /\ Unwrap(ret).val.error = Some(Unwrap(body).m["error"])

\* C2 witness: an envelope with an error and no data came back as Ok.
C2_Witness ==
    /\ ErrorObject
    /\ EnvelopeShaped(Unwrap(body))
    /\ ~Has(Unwrap(body), "data")
    /\ Unwrap(ret).ok
    /\ Unwrap(ret).val.error = Some(JStr("boom"))
    /\ Unwrap(ret).val.data = None

\* C3: a completed exchange whose body is not JSON, or is JSON that does
\* not match the envelope shape, returns Err.
C3_UnshapedBodyIsErr ==
    Completed /\ ~EnvelopeShaped(Unwrap(body)) => ~Unwrap(ret).ok

\* C4: every call returns, and the timeout error comes only when the
\* timeout of 300 seconds has run out.
C4_EveryCallReturns ==
    /\ (rpc # "ret") ~> (rpc = "ret")
    /\ [](ret = Some(Err("timeout")) => elapsed = 300)

\* C4 witness: the remote side never answered and the call returned the
\* timeout error.
C4_Witness ==
    /\ rpc = "ret"
    /\ ret = Some(Err("timeout"))
    /\ http = "failed"
    /\ body = None
    /\ elapsed = Timeout

\* C5: a call issues one HTTP request, never a second one whatever the
\* first one's outcome, and has a result only once that request has
\* completed or failed.
C5_OneRequestPerCall ==
    /\ attempts <= 1
    /\ \A i, j \in 1..Len(wire) :
          i # j => wire[i].by # wire[j].by \/ WireCmd(wire[i]) # WireCmd(wire[j])
    /\ Returned => attempts = 1 /\ http \in {"completed", "failed"}
    /\ IsSome(ret) <=> Returned
    /\ http \in {"completed", "failed"} => Returned

\* C5 witness: a second call of the program returned a failure after its
\* single request, the first having returned an envelope.
C5_Witness ==
    /\ pc = "session_create_await"
    /\ RetErr
    /\ attempts = 1
    /\ Len(wire) = 2

\* C6: session_example issues sessions.create, request.get and
\* sessions.destroy in that order, each after the one before has returned,
\* and the session that get and destroy carry is the one the create
\* envelope gave.
C6_SessionOrderAndId ==
    LET sw == SessionWire
        order == << "sessions.create", "request.get", "sessions.destroy" >>
    IN  /\ Len(sw) <= 3
        /\ \A i \in 1..Len(sw) : WireCmd(sw[i]) = JStr(order[i])
        /\ Caller = "session_example" =>
              /\ Len(sw) >= 2 => IsSome(session_result)
              /\ Len(sw) >= 3 => IsSome(get_result)
              /\ \A i \in 2..Len(sw) :
                    IsSome(Unwrap(session_result).session)
                        => /\ Has(sw[i].body, "session")
                           /\ sw[i].body.m["session"]
                                  = Unwrap(Unwrap(session_result).session)

\* C6 witness: all three were issued and the last two carry the session
\* the create envelope gave.
C6_Witness ==
    /\ pc = "session_destroy_await"
    /\ Len(SessionWire) = 3
    /\ session_result = Some([ session |-> Some(JStr("xyz789")), error |-> None ])
    /\ SessionWire[2].body.m["session"] = JStr("xyz789")
    /\ SessionWire[3].body.m["session"] = JStr("xyz789")

\* C7: with SCRAPPEY_API_KEY unset, no request carries the placeholder as
\* its key.
C7_PlaceholderNeverSent ==
    env.st = "unset" => \A i \in 1..Len(wire) : wire[i].key # Placeholder

DestroySent ==
    \E i \in 1..Len(SessionWire) : WireCmd(SessionWire[i]) = JStr("sessions.destroy")

GetSent ==
    \E i \in 1..Len(SessionWire) : WireCmd(SessionWire[i]) = JStr("request.get")

\* C8: when session_example returns, sessions.destroy has been sent if and
\* only if the create call and the get call both returned Ok, whatever
\* errors their envelopes carry; it is never sent before both have.
C8_DestroyIffBothOk ==
    Caller = "session_example" =>
        /\ DestroySent => IsSome(session_result) /\ IsSome(get_result)
        /\ pc = "session_ret" =>
              (DestroySent <=> IsSome(session_result) /\ IsSome(get_result))

\* C8 witness: the session was created, the get call failed locally, and
\* session_example returned without sending destroy.
C8_Witness ==
    /\ pc = "session_ret"
    /\ IsSome(session_result)
    /\ IsSome(Unwrap(session_result).session)
    /\ get_result = None
    /\ GetSent
    /\ ~DestroySent

\* the create call returned Ok with an envelope that has no session
NoSessionGiven ==
    /\ Caller = "session_example"
    /\ IsSome(session_result)
    /\ Unwrap(session_result).session = None

\* what session_example sent carries the empty string as its session
SentWithEmptySession(c) ==
    \E i \in 1..Len(SessionWire) :
        /\ WireCmd(SessionWire[i]) = JStr(c)
        /\ Has(SessionWire[i].body, "session")
        /\ SessionWire[i].body.m["session"] = JStr("")

\* C9 as stated: after a create envelope without a session, session_example
\* has sent request.get and sessions.destroy, both with the empty session,
\* by the time it returns.
C9_AlwaysGetAndDestroy ==
    NoSessionGiven /\ pc = "session_ret"
        => SentWithEmptySession("request.get")
               /\ SentWithEmptySession("sessions.destroy")

\* C9 amended: after a create envelope without a session, session_example
\* goes on: session_id is the empty string, request.get is sent with it,
\* and, when the get call returns Ok, sessions.destroy is sent with it.
C9_GoesOnWithEmptySession ==
    NoSessionGiven
        => /\ session_id = JStr("")
           /\ pc \notin {"session_create_await", "session_get"}
                  /\ ~(pc = "session_get_await" /\ rpc \in {"build", "send"})
                  => SentWithEmptySession("request.get")
           /\ pc = "session_ret" /\ IsSome(get_result)
                  => SentWithEmptySession("sessions.destroy")
           /\ \A i \in 2..Len(SessionWire) :
                  SessionWire[i].body.m["session"] = JStr("")

\* C9 witness: the create envelope carried only an error, and get and
\* destroy were both sent with the empty session.
C9_Witness ==
    /\ pc = "session_ret"
    /\ session_result = Some([ session |-> None, error |-> Some(JStr("boom")) ])
    /\ SentWithEmptySession("request.get")
    /\ SentWithEmptySession("sessions.destroy")

\* basic_example has dealt with an envelope with data = "success" and a
\* solution that has a response
BasicShown ==
    /\ pc \in {"basic_ret", "panicked"}
    /\ IsSome(result)
    /\ Unwrap(result).data = Some(JStr("success"))
    /\ IsSome(Unwrap(result).solution)
    /\ IsSome(Unwrap(Unwrap(result).solution).response)

\* C10: for such an envelope basic_example does not abort, and the preview
\* is the response when it has at most 200 bytes, else its first 200 bytes
\* and then "...", wherever byte offset 200 falls.
C10_PreviewNeverAborts ==
    BasicShown =>
        LET response == Unwrap(Unwrap(Unwrap(result).solution).response)
            bytes == Utf8Bytes(response.cs)
        IN  /\ pc # "panicked"
            /\ IsSome(preview)
            /\ Len(bytes) <= 200 => Unwrap(preview) = response
            /\ Len(bytes) > 200 =>
                  Utf8Bytes(Unwrap(preview).cs)
                      = SubSeq(bytes, 1, 200) \o Utf8Bytes(Dots)

====
